---- MODULE Spec2Model ----
(***************************************************************************)
(* Modified-Leitner flashcard scheduler (src/src/algorithm.ts).            *)
(*                                                                         *)
(* A JavaScript Set is an object: two references to one Set see each       *)
(* other's add/delete.  The model therefore keeps a heap of Set objects    *)
(* (heap[r] is the content of the Set with reference r) and a BucketMap is *)
(* the sequence of its entries [key, set] in insertion order, where set is *)
(* a reference into the heap.                                              *)
(***************************************************************************)
EXTENDS Integers, Sequences, FiniteSets

\* ---- bounds -------------------------------------------------------------
NumCards   == 2   \* distinct Flashcard objects
MaxInitKey == 2   \* largest bucket number of a caller-built map
MaxBucket  == 3   \* Easy answers are explored up to this bucket number
MaxLen     == 4   \* longest caller-built Array<Set<Flashcard>>
MaxDay     == 8   \* practice days 0..MaxDay

VARIABLES heap, buckets, call
vars == <<heap, buckets, call>>

\* ---- types --------------------------------------------------------------
Flashcard == 1..NumCards
AnswerDifficulty == {"Wrong", "Hard", "Easy"}
Histories == {"undefined", "empty", "log"}

\* ---- Map<number, Set<Flashcard>> ----------------------------------------
Keys(m) == {m[i].key : i \in DOMAIN m}
Has(m, k) == k \in Keys(m)
Get(m, k) == m[CHOOSE i \in DOMAIN m : m[i].key = k].set
\* the content of a map as a function from key to set of cards
Contents(m, h) == [k \in Keys(m) |-> h[Get(m, k)]]

\* ---- toBucketSets -------------------------------------------------------
RECURSIVE MaxKeyFrom(_, _, _)
MaxKeyFrom(m, i, maxBucket) ==
    IF i > Len(m) THEN maxBucket
    ELSE MaxKeyFrom(m, i + 1, IF m[i].key > maxBucket THEN m[i].key ELSE maxBucket)

\* mutant: the key of the last entry instead of the largest key
MaxKeyOf_LastKey(m) == IF Len(m) = 0 THEN 0 ELSE m[Len(m)].key

MaxKeyOf(m) == MaxKeyFrom(m, 1, 0)

\* slot i of the result is the map's own Set object (set = its reference)
\* or a Set created by the call (fresh); index i of the array is i + 1 here
Slot(m, i) ==
    IF Has(m, i) THEN [fresh |-> FALSE, set |-> Get(m, i)]
    ELSE [fresh |-> TRUE, set |-> 0]

\* mutant: the loop stops one index early (i < maxBucket)
toBucketSets_StopsEarly(m) == [j \in 1..MaxKeyOf(m) |-> Slot(m, j - 1)]

toBucketSets(m) == [j \in 1..(MaxKeyOf(m) + 1) |-> Slot(m, j - 1)]

SlotItems(s, h) == IF s.fresh THEN {} ELSE h[s.set]
\* the array as the sequence of its sets' contents
ArrayItems(a, h) == [j \in DOMAIN a |-> SlotItems(a[j], h)]

\* ---- update -------------------------------------------------------------
\* position of the first entry whose set has the card, 0 when there is none
RECURSIVE FindFrom(_, _, _, _)
FindFrom(m, h, card, i) ==
    IF i > Len(m) THEN 0
    ELSE IF card \in h[m[i].set] THEN i
    ELSE FindFrom(m, h, card, i + 1)

CurrentBucket(m, h, card) ==
    LET i == FindFrom(m, h, card, 1)
    IN  IF i = 0 THEN 0 ELSE m[i].key

\* mutant: the card is not removed from its current bucket
DeleteCard_Keeps(m, h, currentBucket, card) == h

DeleteCard(m, h, currentBucket, card) ==
    IF Has(m, currentBucket)
    THEN [h EXCEPT ![Get(m, currentBucket)] = @ \ {card}]
    ELSE h

\* mutant: a Hard answer advances the card like an Easy one
NewBucket_HardAdvances(currentBucket, difficulty) ==
    IF difficulty = "Wrong" THEN 0 ELSE currentBucket + 1

NewBucket(currentBucket, difficulty) ==
    IF difficulty = "Easy" THEN currentBucket + 1
    ELSE IF difficulty = "Hard" THEN currentBucket
    ELSE 0

\* mutant: the destination bucket is overwritten by a set holding only the card
AddCard_Overwrites(m, h, newBucket, card) ==
    IF Has(m, newBucket)
    THEN [map |-> m, heap |-> [h EXCEPT ![Get(m, newBucket)] = {card}]]
    ELSE [map  |-> Append(m, [key |-> newBucket, set |-> Len(h) + 1]),
          heap |-> Append(h, {card})]

AddCard(m, h, newBucket, card) ==
    IF Has(m, newBucket)
    THEN [map |-> m, heap |-> [h EXCEPT ![Get(m, newBucket)] = @ \cup {card}]]
    ELSE [map  |-> Append(m, [key |-> newBucket, set |-> Len(h) + 1]),
          heap |-> Append(h, {card})]

\* new Map(buckets) copies the entries, not the Set objects they refer to
CopyMap(m) == [i \in DOMAIN m |-> m[i]]

update(m, h, card, difficulty) ==
    LET currentBucket == CurrentBucket(m, h, card)
        newBuckets    == CopyMap(m)
        h1            == DeleteCard(newBuckets, h, currentBucket, card)
    IN  AddCard(newBuckets, h1, NewBucket(currentBucket, difficulty), card)

\* ---- getBucketRange -----------------------------------------------------
\* B is an array of sets; found = FALSE stands for min = Infinity, max = -Infinity
RECURSIVE RangeFrom(_, _, _)
RangeFrom(B, j, acc) ==
    IF j > Len(B) THEN acc
    ELSE IF Cardinality(B[j]) > 0
         THEN RangeFrom(B, j + 1,
                [found |-> TRUE,
                 min   |-> IF ~acc.found \/ j - 1 < acc.min THEN j - 1 ELSE acc.min,
                 max   |-> IF ~acc.found \/ j - 1 > acc.max THEN j - 1 ELSE acc.max])
         ELSE RangeFrom(B, j + 1, acc)

\* mutant: max is never raised after the first occupied index
getBucketRange_MaxIsMin(B) ==
    LET r == RangeFrom(B, 1, [found |-> FALSE, min |-> 0, max |-> 0])
    IN  IF ~r.found THEN [undefined |-> TRUE]
        ELSE [undefined |-> FALSE, minBucket |-> r.min, maxBucket |-> r.min]

getBucketRange(B) ==
    LET r == RangeFrom(B, 1, [found |-> FALSE, min |-> 0, max |-> 0])
    IN  IF ~r.found THEN [undefined |-> TRUE]
        ELSE [undefined |-> FALSE, minBucket |-> r.min, maxBucket |-> r.max]

\* ---- practice -----------------------------------------------------------
\* mutant: 2 * i written for 2 ** i
Pow2_Times(i) == 2 * i

Pow2(i) == 2 ^ i

RECURSIVE PracticeFrom(_, _, _, _)
PracticeFrom(B, day, j, result) ==
    IF j > Len(B) THEN result
    ELSE IF j - 1 = 0 THEN PracticeFrom(B, day, j + 1, result \cup B[j])
    ELSE IF day % Pow2(j - 1) = 0 THEN PracticeFrom(B, day, j + 1, result \cup B[j])
    ELSE PracticeFrom(B, day, j + 1, result)

practice(B, day) == PracticeFrom(B, day, 1, {})

\* ---- computeProgress ----------------------------------------------------
RECURSIVE ProgressFrom(_, _, _, _)
ProgressFrom(B, j, totalCards, bucketDistribution) ==
    IF j > Len(B) THEN [totalCards |-> totalCards, bucketDistribution |-> bucketDistribution]
    ELSE ProgressFrom(B, j + 1, totalCards + Cardinality(B[j]),
                      Append(bucketDistribution, Cardinality(B[j])))

\* mutant: bucket 0 is not subtracted
Bucket0Size_Zero(B) == 0

Bucket0Size(B) == IF Len(B) > 0 THEN Cardinality(B[1]) ELSE 0

computeProgress(B, history) ==
    LET p == ProgressFrom(B, 1, 0, <<>>)
    IN  [totalCards |-> p.totalCards,
         learnedCards |-> p.totalCards - Bucket0Size(B),
         bucketDistribution |-> p.bucketDistribution]

\* ---- inputs -------------------------------------------------------------
RECURSIVE SeqsUpTo(_, _)
SeqsUpTo(S, n) ==
    IF n = 0 THEN {<<>>}
    ELSE LET P == SeqsUpTo(S, n - 1)
         IN  P \cup {Append(s, x) : s \in {p \in P : Len(p) = n - 1}, x \in S}

Distinct(s) == \A i, j \in DOMAIN s : i # j => s[i] # s[j]
Disjoint(s) == \A i, j \in DOMAIN s : i # j => s[i] \cap s[j] = {}

\* key orders of a caller-built map: a Map has each key once
KeySeqs == {ks \in SeqsUpTo(0..MaxInitKey, MaxInitKey + 1) : Distinct(ks)}
\* caller-built arrays of sets
DenseArrays == SeqsUpTo(SUBSET Flashcard, MaxLen)

\* ---- state machine ------------------------------------------------------
\* a caller-built valid map: one new Set per key, no card in two of them
Init ==
    \E ks \in KeySeqs :
      \E cs \in [1..Len(ks) -> SUBSET Flashcard] :
        /\ Disjoint(cs)
        /\ heap = cs
        /\ buckets = [i \in 1..Len(ks) |-> [key |-> ks[i], set |-> i]]
        /\ call = [op |-> "none"]

\* the caller replaces its map by update's result; arg is the map object it
\* passed in, before its content when the call started
Update(card, difficulty) ==
    /\ NewBucket(CurrentBucket(buckets, heap, card), difficulty) <= MaxBucket
    /\ LET r == update(buckets, heap, card, difficulty)
       IN  /\ buckets' = r.map
           /\ heap' = r.heap
           /\ call' = [op |-> "update", card |-> card, difficulty |-> difficulty,
                       arg |-> buckets, before |-> Contents(buckets, heap)]

ToBucketSets ==
    /\ call' = [op |-> "toBucketSets", before |-> Contents(buckets, heap),
                ret |-> toBucketSets(buckets)]
    /\ UNCHANGED <<heap, buckets>>

Next ==
    \/ \E card \in Flashcard, difficulty \in AnswerDifficulty : Update(card, difficulty)
    \/ ToBucketSets

Spec == Init /\ [][Next]_vars

\* the functions of an array of sets: the caller builds an array, a day and a
\* history, then calls one of the functions on them
InitPure ==
    \E B \in DenseArrays, day \in 0..MaxDay, history \in Histories :
        /\ heap = <<>>
        /\ buckets = <<>>
        /\ call = [op |-> "none", B |-> B, day |-> day, history |-> history]

GetBucketRange ==
    /\ call.op = "none"
    /\ call' = [op |-> "getBucketRange", B |-> call.B, ret |-> getBucketRange(call.B)]
    /\ UNCHANGED <<heap, buckets>>

\* practice requires a valid array: no card in two buckets
Practice ==
    /\ call.op = "none"
    /\ Disjoint(call.B)
    /\ call' = [op |-> "practice", B |-> call.B, day |-> call.day,
                ret |-> practice(call.B, call.day)]
    /\ UNCHANGED <<heap, buckets>>

ComputeProgress ==
    /\ call.op = "none"
    /\ call' = [op |-> "computeProgress", B |-> call.B, history |-> call.history,
                ret |-> computeProgress(call.B, call.history)]
    /\ UNCHANGED <<heap, buckets>>

NextPure ==
    \/ GetBucketRange
    \/ Practice
    \/ ComputeProgress

SpecPure == InitPure /\ [][NextPure]_vars

\* ---- properties ---------------------------------------------------------
\* the keys of a map content whose set holds card c
BucketsOf(f, c) == {k \in DOMAIN f : c \in f[k]}
\* the references of a map's Set objects
SetsOf(m) == {m[i].set : i \in DOMAIN m}
\* the current map's content
Now == Contents(buckets, heap)
\* the bucket the specification assigns to card c in map content f
CurOf(f, c) == IF BucketsOf(f, c) = {} THEN 0 ELSE CHOOSE k \in BucketsOf(f, c) : TRUE
\* the largest element of a non-empty set of numbers
Largest(S) == CHOOSE k \in S : \A l \in S : l <= k
Smallest(S) == CHOOSE k \in S : \A l \in S : k <= l
\* the indices (from 0) of the non-empty sets of an array of sets
Occupied(B) == {j - 1 : j \in {l \in DOMAIN B : B[l] # {}}}

\* C1: after update(M, c, q) the argument map M has the keys and the bucket
\* contents it had before the call, and the returned map shares no Set with M.
C1_UpdateNonMutating ==
    call.op = "update" =>
        /\ Contents(call.arg, heap) = call.before
        /\ SetsOf(call.arg) \cap SetsOf(buckets) = {}

\* C2: in the map update returns, the card is in exactly one bucket: cur + 1
\* for Easy, cur for Hard, 0 for Wrong, where cur is the card's bucket before
\* the call, or 0 for a card in no bucket.
C2_UpdateDestination ==
    call.op = "update" =>
        LET cur == CurOf(call.before, call.card)
        IN  BucketsOf(Now, call.card) =
              { CASE call.difficulty = "Easy"  -> cur + 1
                  [] call.difficulty = "Hard"  -> cur
                  [] call.difficulty = "Wrong" -> 0 }

C2_Witness ==
    /\ call.op = "update"
    /\ call.difficulty = "Easy"
    /\ BucketsOf(call.before, call.card) = {2}
    /\ BucketsOf(Now, call.card) = {3}

\* C3: a card of bucket i is in practice(B, d) exactly when i = 0 or d is a
\* multiple of 2^i; practice(B, d) holds only cards of B, and practice(B, 0)
\* is the union of all buckets.
C3_PracticeDue ==
    call.op = "practice" =>
        /\ \A j \in DOMAIN call.B : \A x \in call.B[j] :
              x \in call.ret <=>
                (j = 1 \/ \E n \in 0..call.day : n * (2 ^ (j - 1)) = call.day)
        /\ call.ret \subseteq UNION {call.B[j] : j \in DOMAIN call.B}
        /\ call.day = 0 => call.ret = UNION {call.B[j] : j \in DOMAIN call.B}

C3_Witness ==
    /\ call.op = "practice"
    /\ call.day = 6
    /\ Len(call.B) = 4
    /\ call.B[2] = {1}
    /\ call.B[4] = {2}
    /\ call.ret = {1}

\* C4: every card is in at most one bucket of the current map, and in at
\* most one set of toBucketSets of the current map.
C4_OneBucketPerCard ==
    /\ \A c \in Flashcard : Cardinality(BucketsOf(Now, c)) <= 1
    /\ LET a == ArrayItems(toBucketSets(buckets), heap)
       IN  \A c \in Flashcard : Cardinality({j \in DOMAIN a : c \in a[j]}) <= 1

\* an unknown card was answered Easy while another card sits in bucket 1
C4_Witness ==
    /\ call.op = "update"
    /\ BucketsOf(call.before, call.card) = {}
    /\ call.difficulty = "Easy"
    /\ \E c \in Flashcard \ {call.card} : BucketsOf(call.before, c) = {1}
    /\ \A c \in Flashcard : Cardinality(BucketsOf(Now, c)) = 1

\* C5: toBucketSets of a map with no keys returns an array of length 0.
C5_EmptyMapEmptyArray ==
    (call.op = "toBucketSets" /\ Keys(buckets) = {}) => Len(call.ret) = 0

\* C6: for a map with at least one key, toBucketSets returns an array of
\* length largest key + 1 whose slot i holds the cards of the map's set for
\* key i, or no card when i is not a key; the map is unchanged by the call.
C6_ToBucketSets ==
    (call.op = "toBucketSets" /\ Keys(buckets) # {}) =>
        /\ Len(call.ret) = Largest(Keys(buckets)) + 1
        /\ \A i \in 0..Largest(Keys(buckets)) :
              SlotItems(call.ret[i + 1], heap) = IF i \in DOMAIN Now THEN Now[i] ELSE {}
        /\ Now = call.before

C6_Witness ==
    /\ call.op = "toBucketSets"
    /\ Keys(buckets) = {0, 2}
    /\ Now[0] # {}
    /\ Now[2] # {}
    /\ Len(call.ret) = 3
    /\ call.ret[2].fresh

\* C7: getBucketRange(B) is undefined exactly when every set of B is empty;
\* otherwise minBucket and maxBucket are the smallest and the largest index
\* whose set is non-empty.
C7_BucketRange ==
    call.op = "getBucketRange" =>
        /\ call.ret.undefined <=> Occupied(call.B) = {}
        /\ ~call.ret.undefined =>
              /\ call.ret.minBucket = Smallest(Occupied(call.B))
              /\ call.ret.maxBucket = Largest(Occupied(call.B))

C7_Witness ==
    /\ call.op = "getBucketRange"
    /\ Occupied(call.B) = {1, 3}
    /\ call.ret = [undefined |-> FALSE, minBucket |-> 1, maxBucket |-> 3]

\* C8: computeProgress(B, history) returns totalCards = the sum of the bucket
\* sizes, learnedCards = totalCards less the size of bucket 0, and
\* bucketDistribution = the bucket sizes in order, whatever the history.
C8_Progress ==
    call.op = "computeProgress" =>
        LET total == Cardinality({<<j, x>> \in (DOMAIN call.B) \X Flashcard : x \in call.B[j]})
            size0 == Cardinality({x \in Flashcard : Len(call.B) >= 1 /\ x \in call.B[1]})
        IN  /\ call.ret.totalCards = total
            /\ call.ret.learnedCards = total - size0
            /\ Len(call.ret.bucketDistribution) = Len(call.B)
            /\ \A j \in DOMAIN call.B :
                  call.ret.bucketDistribution[j] = Cardinality(call.B[j])

C8_Witness ==
    /\ call.op = "computeProgress"
    /\ call.history = "log"
    /\ call.B = <<{1}, {}, {2}>>
    /\ call.ret = [totalCards |-> 2, learnedCards |-> 1, bucketDistribution |-> <<1, 0, 1>>]

\* C9: toBucketSets of the current map has length (highest index whose set is
\* non-empty) + 1, so the array never ends with an empty set; stated for the
\* maps in which some bucket holds a card.
C9_LengthIsHighestOccupied ==
    call.op = "toBucketSets" =>
        LET occ == Occupied(ArrayItems(call.ret, heap))
        IN  occ # {} => Len(call.ret) = Largest(occ) + 1

\* C9 as amended: the length is at least (highest index whose set is
\* non-empty) + 1, and it is (largest key) + 1 when the map has a key.
C9_LengthIsLargestKey ==
    call.op = "toBucketSets" =>
        LET occ == {k \in DOMAIN Now : Now[k] # {}}
        IN  /\ Len(call.ret) >= IF occ = {} THEN 0 ELSE Largest(occ) + 1
            /\ Keys(buckets) # {} => Len(call.ret) = Largest(Keys(buckets)) + 1

\* the array ends with an empty set above a non-empty bucket
C9_Witness ==
    /\ call.op = "toBucketSets"
    /\ Len(call.ret) = 3
    /\ SlotItems(call.ret[1], heap) # {}
    /\ ~call.ret[3].fresh
    /\ SlotItems(call.ret[3], heap) = {}

\* C10: in the map update returns, every card other than the reviewed one is
\* in the bucket it was in, every key of the argument is still a key, and the
\* only key that can be new is the reviewed card's destination.
C10_UpdateFrame ==
    call.op = "update" =>
        /\ \A c \in Flashcard \ {call.card} : BucketsOf(Now, c) = BucketsOf(call.before, c)
        /\ DOMAIN call.before \subseteq DOMAIN Now
        /\ (DOMAIN Now \ DOMAIN call.before) \subseteq BucketsOf(Now, call.card)

\* {0: {A}, 2: {B}}, update(A, Easy) gives {0: {}, 1: {A}, 2: {B}}
C10_Witness ==
    /\ call.op = "update"
    /\ call.difficulty = "Easy"
    /\ DOMAIN call.before = {0, 2}
    /\ call.before[0] = {call.card}
    /\ \E c \in Flashcard \ {call.card} : call.before[2] = {c} /\ Now[2] = {c}
    /\ DOMAIN Now = {0, 1, 2}
    /\ Now[0] = {}
    /\ Now[1] = {call.card}
====
